---- MODULE Spec2Model ----
(***************************************************************************)
(* Model of src/Path.py: the PLNM score (calculate_plnm_score), the        *)
(* pyramid level selection (WSIAnalyzer.select_optimal_level), the         *)
(* thumbnail generation (WSIAnalyzer.generate_thumbnail) and the slide     *)
(* analysis (WSIAnalyzer.analyze_wsi).                                     *)
(*                                                                         *)
(* Python indices are kept 0-based: level i of the slide is                *)
(* level_dimensions[i + 1] of the TLA+ sequence.                           *)
(***************************************************************************)
EXTENDS Integers, Sequences, FiniteSets, TLC

VARIABLES
    pc,               \* position of the running call
    obs,              \* the five radio inputs of main()
    plnm_score,       \* main(): plnm_score
    level_dimensions, \* slide.level_dimensions, a sequence of <<width, height>>
    properties,       \* slide.properties: the set of keys the slide carries
    calls,            \* the select_optimal_level calls made on the slide
    max_size,         \* max_thumbnail_size / max_size
    thumbnail,        \* return value of generate_thumbnail
    path_exists,      \* os.path.exists(wsi_path)
    file_bytes,       \* os.path.getsize(wsi_path)
    opened,           \* number of openslide.OpenSlide(...) calls that returned
    closed,           \* number of slide.close() calls
    analysis_result,  \* analyze_wsi: the local analysis_result
    optimal_level,    \* analyze_wsi: the local optimal_level
    raised,           \* the step of analyze_wsi at which an exception was raised
    result            \* what analyze_wsi returned to its caller

vars == <<pc, obs, plnm_score, level_dimensions, properties, calls, max_size,
          thumbnail, path_exists, file_bytes, opened, closed, analysis_result,
          optimal_level, raised, result>>

----------------------------------------------------------------------------
(* Bounds *)

MaxObs == 2        \* radio inputs are drawn from 0..MaxObs
MaxLevels == 4     \* longest pyramid
MaxCalls == 2      \* select_optimal_level calls per slide
MaxSide == 6       \* largest level side in the thumbnail specification
MaxThumb == 4      \* largest max_size in the thumbnail specification

(* Program constants *)

DefaultMaxPixels == 4000000   \* max_pixels=2000 * 2000
BytesPerGB == 1073741824      \* 1024 ** 3

None == [none |-> TRUE]      \* Python None
NoValue == [pending |-> TRUE] \* a local or return value not yet assigned

----------------------------------------------------------------------------
(* calculate_plnm_score *)

calculate_plnm_score_grade2(lvi, tumor_budding, pdcs_level, histologic_grade2, sm2) ==
    lvi * 4 + tumor_budding * 3 + pdcs_level * 2 + histologic_grade2 * 2 + sm2 * 1

calculate_plnm_score(lvi, tumor_budding, pdcs_level, histologic_grade2, sm2) ==
    lvi * 4 + tumor_budding * 3 + pdcs_level * 2 + histologic_grade2 * 3 + sm2 * 1

----------------------------------------------------------------------------
(* select_optimal_level *)

level_count(dims) == Len(dims)

total_pixels(dims, i) == dims[i + 1][1] * dims[i + 1][2]

\* for i in range(slide.level_count): if width * height <= max_pixels: return i
RECURSIVE scan_levels(_, _, _)
scan_levels(dims, max_pixels, i) ==
    IF i >= level_count(dims)
    THEN level_count(dims) - 1
    ELSE IF total_pixels(dims, i) <= max_pixels
         THEN i
         ELSE scan_levels(dims, max_pixels, i + 1)

\* mutants of the scan
RECURSIVE scan_levels_strict(_, _, _)
scan_levels_strict(dims, max_pixels, i) ==
    IF i >= level_count(dims)
    THEN level_count(dims) - 1
    ELSE IF total_pixels(dims, i) < max_pixels
         THEN i
         ELSE scan_levels_strict(dims, max_pixels, i + 1)

RECURSIVE scan_levels_reversed(_, _, _)
scan_levels_reversed(dims, max_pixels, i) ==
    IF i < 0
    THEN level_count(dims) - 1
    ELSE IF total_pixels(dims, i) <= max_pixels
         THEN i
         ELSE scan_levels_reversed(dims, max_pixels, i - 1)

RECURSIVE scan_levels_over(_, _, _)
scan_levels_over(dims, max_pixels, i) ==
    IF i >= level_count(dims)
    THEN level_count(dims) - 1
    ELSE IF total_pixels(dims, i) >= max_pixels
         THEN i
         ELSE scan_levels_over(dims, max_pixels, i + 1)

RECURSIVE scan_levels_past_end(_, _, _)
scan_levels_past_end(dims, max_pixels, i) ==
    IF i >= level_count(dims)
    THEN level_count(dims)
    ELSE IF total_pixels(dims, i) <= max_pixels
         THEN i
         ELSE scan_levels_past_end(dims, max_pixels, i + 1)

select_optimal_level_strict(dims, max_pixels) == scan_levels_strict(dims, max_pixels, 0)

select_optimal_level_reversed(dims, max_pixels) ==
    scan_levels_reversed(dims, max_pixels, level_count(dims) - 1)

select_optimal_level_over(dims, max_pixels) == scan_levels_over(dims, max_pixels, 0)

select_optimal_level_past_end(dims, max_pixels) == scan_levels_past_end(dims, max_pixels, 0)

select_optimal_level(dims, max_pixels) == scan_levels(dims, max_pixels, 0)

----------------------------------------------------------------------------
(* generate_thumbnail *)

\* slide.level_dimensions[level]: a Python tuple accepts the indices -n..n-1
index_ok(dims, level) == level >= 0 - Len(dims) /\ level < Len(dims)

py_index(dims, level) ==
    IF level >= 0 THEN dims[level + 1] ELSE dims[Len(dims) + level + 1]

RECURSIVE gcd(_, _)
gcd(a, b) == IF b = 0 THEN a ELSE gcd(b, a % b)

RECURSIVE is_power_of_two(_)
is_power_of_two(n) ==
    IF n = 1 THEN TRUE ELSE IF n % 2 = 1 THEN FALSE ELSE is_power_of_two(n \div 2)

\* a quotient of two integers is an exact double iff its reduced denominator
\* is a power of two (all values here are far below 2^53)
exact_double(r) == is_power_of_two(r.den \div gcd(r.num, r.den))

\* mutant: the larger of the two quotients
thumbnail_ratio_max(m, original_width, original_height) ==
    LET a == [num |-> m, den |-> original_width]
        b == [num |-> m, den |-> original_height]
    IN  IF b.num * a.den > a.num * b.den THEN b ELSE a

\* ratio = min(max_size / original_width, max_size / original_height),
\* kept as the fraction num/den that the double approximates
thumbnail_ratio(m, original_width, original_height) ==
    LET a == [num |-> m, den |-> original_width]
        b == [num |-> m, den |-> original_height]
    IN  IF b.num * a.den < a.num * b.den THEN b ELSE a

\* if ratio < 1
ratio_below_one(r) == r.num < r.den

\* int(x * ratio): the double x * ratio lies within a few ulps of the exact
\* product, so truncation gives the exact floor unless the exact product is an
\* integer k and the rounded ratio brings the double just below k
\* (49 * (1 / 49) is 0.9999999999999999), where it gives k or k - 1.
scaled_side(x, r) ==
    LET q == (x * r.num) \div r.den
    IN  IF (x * r.num) % r.den = 0 /\ ~exact_double(r) THEN {q, q - 1} ELSE {q}

\* thumbnail.resize(new_size, ...): Pillow raises ValueError for an empty size
resize_accepts(new_size) == new_size[1] >= 1 /\ new_size[2] >= 1

Image(size) == [size |-> size]

\* The values generate_thumbnail can return: an image, or None when the
\* indexing, read_region, convert or resize raised (except Exception: return None).
generate_thumbnail(dims, level, m) ==
    IF ~index_ok(dims, level)
    THEN {None}
    ELSE LET level_size == py_index(dims, level)
             original_width == level_size[1]
             original_height == level_size[2]
             ratio == thumbnail_ratio(m, original_width, original_height)
         IN  {None} \cup
             (IF ratio_below_one(ratio)
              THEN {Image(new_size) :
                      new_size \in {ns \in scaled_side(original_width, ratio)
                                            \X scaled_side(original_height, ratio) :
                                        resize_accepts(ns)}}
              ELSE {Image(level_size)})

----------------------------------------------------------------------------
(* analyze_wsi *)

\* interesting_properties
InterestingProperties ==
    {"openslide.mpp-x", "openslide.mpp-y", "openslide.objective-power",
     "openslide.vendor", "openslide.comment", "tiff.ImageDescription"}

\* mutant: floor division
file_size_floor(bytes) == [num |-> bytes \div BytesPerGB, den |-> 1]

\* file_size = os.path.getsize(wsi_path) / (1024 ** 3): true division by a
\* power of two is exact, so the double is the fraction bytes / 2^30
file_size_gb(bytes) == [num |-> bytes, den |-> BytesPerGB]

\* if file_size == 0
file_size_is_zero(file_size) == file_size.num = 0

\* return {"success": False, "error": ...}
error_result(message) == [success |-> FALSE, error |-> message]

\* mutant: the handler reports success
except_result_success(kind) ==
    [success |-> TRUE,
     error |-> IF kind = "OpenSlideError" THEN "OpenSlide error" ELSE "error"]

\* except openslide.OpenSlideError / except Exception
except_result(kind) ==
    error_result(IF kind = "OpenSlideError" THEN "OpenSlide error" ELSE "error")

\* level_info of level i
level_info(dims, i) ==
    [level |-> i, width |-> dims[i + 1][1], height |-> dims[i + 1][2],
     total_pixels |-> dims[i + 1][1] * dims[i + 1][2]]

\* analysis_result after the level loop and the property loop
extracted_result(dims, props) ==
    [success |-> TRUE,
     level_count |-> Len(dims),
     dimensions_level0 |-> dims[1],
     levels |-> [j \in 1..Len(dims) |-> level_info(dims, j - 1)],
     properties |-> [prop \in InterestingProperties \cap DOMAIN props |-> props[prop]],
     thumbnail_generated |-> FALSE]

\* mutant: the flag is set whatever generate_thumbnail returned
attach_thumbnail_always(res, thumb) ==
    IF thumb # None
    THEN [success |-> res.success, level_count |-> res.level_count,
          dimensions_level0 |-> res.dimensions_level0, levels |-> res.levels,
          properties |-> res.properties, thumbnail_generated |-> TRUE,
          thumbnail |-> thumb, thumbnail_size |-> thumb.size]
    ELSE [res EXCEPT !.thumbnail_generated = TRUE]

\* if thumbnail: analysis_result["thumbnail"] = thumbnail; ...
attach_thumbnail(res, thumb) ==
    IF thumb # None
    THEN [success |-> res.success, level_count |-> res.level_count,
          dimensions_level0 |-> res.dimensions_level0, levels |-> res.levels,
          properties |-> res.properties, thumbnail_generated |-> TRUE,
          thumbnail |-> thumb, thumbnail_size |-> thumb.size]
    ELSE res

\* the steps of the try block
TryBlock == {"getsize", "open", "extract", "select", "thumbnail", "close"}

ExceptionKinds == {"OpenSlideError", "Exception"}

Return(r) == result' = r /\ pc' = "done"

\* if not os.path.exists(wsi_path): return {"success": False, ...}
CheckExists ==
    /\ pc = "exists"
    /\ IF ~path_exists
       THEN Return(error_result("file does not exist"))
       ELSE pc' = "getsize" /\ UNCHANGED result
    /\ UNCHANGED <<obs, plnm_score, level_dimensions, properties, calls, max_size,
                   thumbnail, path_exists, file_bytes, opened, closed,
                   analysis_result, optimal_level, raised>>

\* file_size = ...; if file_size == 0: return {"success": False, ...}
CheckSize ==
    /\ pc = "getsize"
    /\ IF file_size_is_zero(file_size_gb(file_bytes))
       THEN Return(error_result("file size is 0"))
       ELSE pc' = "open" /\ UNCHANGED result
    /\ UNCHANGED <<obs, plnm_score, level_dimensions, properties, calls, max_size,
                   thumbnail, path_exists, file_bytes, opened, closed,
                   analysis_result, optimal_level, raised>>

\* slide = openslide.OpenSlide(wsi_path)
OpenSlide ==
    /\ pc = "open"
    /\ opened' = opened + 1
    /\ pc' = "extract"
    /\ UNCHANGED <<obs, plnm_score, level_dimensions, properties, calls, max_size,
                   thumbnail, path_exists, file_bytes, closed, analysis_result,
                   optimal_level, raised, result>>

\* analysis_result = {...}; basic information, level loop, property loop.
\* slide.level_dimensions[0] raises IndexError on a slide without levels.
Extract ==
    /\ pc = "extract"
    /\ IF Len(level_dimensions) = 0
       THEN /\ Return(except_result("Exception"))
            /\ raised' = "extract"
            /\ UNCHANGED analysis_result
       ELSE /\ analysis_result' = extracted_result(level_dimensions, properties)
            /\ pc' = "select"
            /\ UNCHANGED <<raised, result>>
    /\ UNCHANGED <<obs, plnm_score, level_dimensions, properties, calls, max_size,
                   thumbnail, path_exists, file_bytes, opened, closed, optimal_level>>

\* optimal_level = self.select_optimal_level(slide, max_pixels=2000 * 2000)
SelectLevel ==
    /\ pc = "select"
    /\ optimal_level' = select_optimal_level(level_dimensions, DefaultMaxPixels)
    /\ pc' = "thumbnail"
    /\ UNCHANGED <<obs, plnm_score, level_dimensions, properties, calls, max_size,
                   thumbnail, path_exists, file_bytes, opened, closed,
                   analysis_result, raised, result>>

\* thumbnail = self.generate_thumbnail(slide, optimal_level, max_thumbnail_size)
\* if thumbnail: ...
Thumbnail ==
    /\ pc = "thumbnail"
    /\ \E t \in generate_thumbnail(level_dimensions, optimal_level, max_size) :
          /\ thumbnail' = t
          /\ analysis_result' = attach_thumbnail(analysis_result, t)
    /\ pc' = "close"
    /\ UNCHANGED <<obs, plnm_score, level_dimensions, properties, calls, max_size,
                   path_exists, file_bytes, opened, closed, optimal_level, raised,
                   result>>

\* slide.close(); return analysis_result
CloseAndReturn ==
    /\ pc = "close"
    /\ closed' = closed + 1
    /\ Return(analysis_result)
    /\ UNCHANGED <<obs, plnm_score, level_dimensions, properties, calls, max_size,
                   thumbnail, path_exists, file_bytes, opened, analysis_result,
                   optimal_level, raised>>

\* Any statement of the try block raises (a library call on the file or the
\* slide, a progress update); one of the two handlers returns the error record.
Raise ==
    /\ pc \in TryBlock
    /\ \E kind \in ExceptionKinds : Return(except_result(kind))
    /\ raised' = pc
    /\ UNCHANGED <<obs, plnm_score, level_dimensions, properties, calls, max_size,
                   thumbnail, path_exists, file_bytes, opened, closed,
                   analysis_result, optimal_level>>

----------------------------------------------------------------------------
(* Calls of the pure functions *)

\* main(): plnm_score = calculate_plnm_score(lvi, tumor_budding, ...)
ComputeScore ==
    /\ pc = "score"
    /\ plnm_score' = calculate_plnm_score(obs.lvi, obs.tumor_budding, obs.pdcs_level,
                                          obs.histologic_grade2, obs.sm2)
    /\ pc' = "scored"
    /\ UNCHANGED <<obs, level_dimensions, properties, calls, max_size, thumbnail,
                   path_exists, file_bytes, opened, closed, analysis_result,
                   optimal_level, raised, result>>

\* the pixel budgets a caller passes as max_pixels
Budgets == {5, 100, 250000, 1000000, DefaultMaxPixels}

\* one call select_optimal_level(slide, max_pixels) on the slide
SelectCall ==
    /\ pc = "select_calls"
    /\ Len(calls) < MaxCalls
    /\ \E b \in Budgets :
          calls' = Append(calls, [max_pixels |-> b,
                                  level |-> select_optimal_level(level_dimensions, b)])
    /\ UNCHANGED <<pc, obs, plnm_score, level_dimensions, properties, max_size,
                   thumbnail, path_exists, file_bytes, opened, closed,
                   analysis_result, optimal_level, raised, result>>

\* one call generate_thumbnail(slide, 0, max_size)
GenerateThumbnail ==
    /\ pc = "generate"
    /\ \E t \in generate_thumbnail(level_dimensions, 0, max_size) : thumbnail' = t
    /\ pc' = "generated"
    /\ UNCHANGED <<obs, plnm_score, level_dimensions, properties, calls, max_size,
                   path_exists, file_bytes, opened, closed, analysis_result,
                   optimal_level, raised, result>>

----------------------------------------------------------------------------
(* Inputs and specifications *)

\* level sizes a slide reports
LevelSizes ==
    {<<4000, 4000>>, <<2000, 2000>>, <<1000, 1000>>, <<500, 500>>, <<250, 250>>,
     <<3, 2>>}

Slides == UNION {[1..n -> LevelSizes] : n \in 1..MaxLevels}

NonIncreasing(dims) ==
    \A i \in 0..(Len(dims) - 2) : total_pixels(dims, i) >= total_pixels(dims, i + 1)

\* what an opened file can report: a pyramid, or no level at all
Pyramids == {dims \in Slides : NonIncreasing(dims)} \cup {<<>>}

SlideKeys == {"openslide.vendor", "aperio.AppMag"}

SlideProperties == UNION {[S -> {"v"}] : S \in SUBSET SlideKeys}

FileSizes == {0, 1, 1024, BytesPerGB}

ThumbnailSizes == {2, 800}

NoObs == [lvi |-> 0, tumor_budding |-> 0, pdcs_level |-> 0, histologic_grade2 |-> 0,
          sm2 |-> 0]

Idle ==
    /\ plnm_score = NoValue
    /\ calls = <<>>
    /\ thumbnail = NoValue
    /\ opened = 0
    /\ closed = 0
    /\ analysis_result = NoValue
    /\ optimal_level = NoValue
    /\ raised = "none"
    /\ result = NoValue

\* analyze_wsi(wsi_path, max_thumbnail_size)
Init ==
    /\ pc = "exists"
    /\ obs = NoObs
    /\ path_exists \in BOOLEAN
    /\ file_bytes \in FileSizes
    /\ level_dimensions \in Pyramids
    /\ properties \in SlideProperties
    /\ max_size \in ThumbnailSizes
    /\ Idle

Next ==
    \/ CheckExists
    \/ CheckSize
    \/ OpenSlide
    \/ Extract
    \/ SelectLevel
    \/ Thumbnail
    \/ CloseAndReturn
    \/ Raise

Spec == Init /\ [][Next]_vars

\* calculate_plnm_score on every input
InitScore ==
    /\ pc = "score"
    /\ obs \in [{"lvi", "tumor_budding", "pdcs_level", "histologic_grade2", "sm2"}
                  -> 0..MaxObs]
    /\ path_exists = FALSE
    /\ file_bytes = 0
    /\ level_dimensions = <<>>
    /\ properties = <<>>
    /\ max_size = 1
    /\ Idle

NextScore == ComputeScore

SpecScore == InitScore /\ [][NextScore]_vars

\* select_optimal_level on every slide
InitSelect ==
    /\ pc = "select_calls"
    /\ obs = NoObs
    /\ path_exists = FALSE
    /\ file_bytes = 0
    /\ level_dimensions \in Slides
    /\ properties = <<>>
    /\ max_size = 1
    /\ Idle

NextSelect == SelectCall

SpecSelect == InitSelect /\ [][NextSelect]_vars

\* generate_thumbnail on every level size
InitThumb ==
    /\ pc = "generate"
    /\ obs = NoObs
    /\ path_exists = FALSE
    /\ file_bytes = 0
    /\ level_dimensions \in {<<<<w, h>>>> : w \in 1..MaxSide, h \in 1..MaxSide}
    /\ properties = <<>>
    /\ max_size \in 1..MaxThumb
    /\ Idle

NextThumb == GenerateThumbnail

SpecThumb == InitThumb /\ [][NextThumb]_vars

----------------------------------------------------------------------------
(* Properties *)

IsErrorRecord(r) == DOMAIN r = {"success", "error"} /\ r.success = FALSE

Returned == pc = "done"

\* C1: whenever analyze_wsi has returned and the slide was opened, the handle
\* was closed exactly once, whatever the exit path.
C1_ClosedOnEveryExit == (Returned /\ opened = 1) => closed = 1

\* the levels of dims whose pixel count is within the budget b
Fitting(dims, b) == {i \in 0..(Len(dims) - 1) : total_pixels(dims, i) <= b}

ExamplePyramid == <<<<2000, 2000>>, <<1000, 1000>>, <<500, 500>>, <<250, 250>>>>

\* C2: every call returns the smallest index whose pixel count is within the
\* budget, or the last index when no level is; on the pixel counts
\* [4000000, 1000000, 250000, 62500] it returns 1 for budget 1000000 and 3 for
\* budget 100.
C2_FirstFittingLevel ==
    \A k \in 1..Len(calls) :
        LET c == calls[k]
            fit == Fitting(level_dimensions, c.max_pixels)
        IN  /\ IF fit = {}
               THEN c.level = Len(level_dimensions) - 1
               ELSE c.level \in fit /\ \A j \in fit : c.level <= j
            /\ (level_dimensions = ExamplePyramid /\ c.max_pixels = 1000000)
                  => c.level = 1
            /\ (level_dimensions = ExamplePyramid /\ c.max_pixels = 100)
                  => c.level = 3

C2_Witness ==
    /\ level_dimensions = ExamplePyramid
    /\ calls = <<[max_pixels |-> 1000000, level |-> 1], [max_pixels |-> 100, level |-> 3]>>

\* C3 as stated: after any failure (existence check, size check, open,
\* extraction, level selection or region read) the returned record is an
\* error record with exactly the fields success=false and error.
C3_EveryFailureIsErrorRecord ==
    (Returned /\ (~path_exists \/ file_bytes = 0 \/ raised # "none" \/ thumbnail = None))
        => IsErrorRecord(result)

\* C3 amended: analyze_wsi always returns a record; after a failure of the
\* existence check, the size check, the open, the extraction or the level
\* selection it is an error record with exactly success=false and error; a
\* failure inside generate_thumbnail alone leaves a success=true record.
C3_FailureIsErrorRecordExceptThumbnail ==
    Returned =>
        /\ result # NoValue
        /\ "success" \in DOMAIN result
        /\ (~path_exists \/ file_bytes = 0 \/ raised # "none") => IsErrorRecord(result)
        /\ (thumbnail = None /\ raised = "none") => result.success = TRUE

C3_Witness ==
    /\ Returned
    /\ opened = 1
    /\ raised = "extract"
    /\ Len(level_dimensions) > 0
    /\ IsErrorRecord(result)

\* C4: in every successful summary the chosen level is a valid index into the
\* extracted level list.
C4_ChosenLevelValid ==
    (Returned /\ result.success) =>
        (optimal_level >= 0 /\ optimal_level < Len(result.levels))

\* the fallback case: no level is within the budget
C4_Witness ==
    /\ Returned
    /\ result.success
    /\ Len(level_dimensions) = 2
    /\ Fitting(level_dimensions, DefaultMaxPixels) = {}
    /\ optimal_level = 1

\* C5 as stated: the pixel count of the chosen level is the smallest pixel
\* count among the levels within the budget, or the chosen level is the last
\* one when no level is within the budget.
C5_SmallestFittingPixelCount ==
    \A k \in 1..Len(calls) :
        LET c == calls[k]
            fit == Fitting(level_dimensions, c.max_pixels)
        IN  IF fit = {}
            THEN c.level = Len(level_dimensions) - 1
            ELSE \A j \in fit :
                    total_pixels(level_dimensions, c.level)
                        <= total_pixels(level_dimensions, j)

\* C5 amended: on a pyramid (pixel counts non-increasing with the index) the
\* chosen level is within the budget and its pixel count is the largest among
\* the levels within the budget; when no level is within the budget the chosen
\* level is the last one.
C5_LargestFittingPixelCount ==
    \A k \in 1..Len(calls) :
        LET c == calls[k]
            fit == Fitting(level_dimensions, c.max_pixels)
        IN  IF fit = {}
            THEN c.level = Len(level_dimensions) - 1
            ELSE NonIncreasing(level_dimensions) =>
                    /\ c.level \in fit
                    /\ \A j \in fit :
                          total_pixels(level_dimensions, c.level)
                              >= total_pixels(level_dimensions, j)

C5_Witness ==
    /\ level_dimensions = <<<<2000, 2000>>, <<1000, 1000>>, <<500, 500>>>>
    /\ Len(calls) = 1
    /\ calls[1] = [max_pixels |-> 1000000, level |-> 1]

\* C6: on binary inputs the score is 4*lvi + 3*tumor_budding + 2*pdcs_level +
\* 3*histologic_grade2 + sm2, lies in 0..13, and is 13 on (1,1,1,1,1), 0 on
\* (0,0,0,0,0) and 4 on (1,0,0,0,0).
C6_WeightedSum ==
    (pc = "scored" /\ \A f \in DOMAIN obs : obs[f] \in {0, 1}) =>
        /\ plnm_score = 4 * obs.lvi + 3 * obs.tumor_budding + 2 * obs.pdcs_level
                          + 3 * obs.histologic_grade2 + obs.sm2
        /\ plnm_score \in 0..13
        /\ (\A f \in DOMAIN obs : obs[f] = 1) => plnm_score = 13
        /\ (\A f \in DOMAIN obs : obs[f] = 0) => plnm_score = 0
        /\ (obs.lvi = 1 /\ \A f \in DOMAIN obs \ {"lvi"} : obs[f] = 0) => plnm_score = 4

C6_Witness ==
    /\ pc = "scored"
    /\ \A f \in DOMAIN obs : obs[f] = 1
    /\ plnm_score = 13

\* C7: the slide is only ever opened for an existing file of at least one
\* byte; a missing path returns the not-found error record and a 0-byte file
\* an error record (the empty-file one unless a statement raised first), both
\* without any open; a file of one byte or more is never reported empty.
C7_ChecksBeforeOpen ==
    /\ opened > 0 => (path_exists /\ file_bytes >= 1)
    /\ (Returned /\ ~path_exists) =>
          (result = error_result("file does not exist") /\ opened = 0)
    /\ (Returned /\ path_exists /\ file_bytes = 0) =>
          /\ IsErrorRecord(result)
          /\ opened = 0
          /\ raised = "none" => result = error_result("file size is 0")
    /\ (Returned /\ file_bytes >= 1) => result # error_result("file size is 0")

C7_Witness ==
    /\ Returned
    /\ path_exists
    /\ file_bytes = 0
    /\ result = error_result("file size is 0")
    /\ opened = 0

\* C8: for two calls on the same slide with budgets b1 <= b2 the level
\* returned for b2 is at most the level returned for b1.
C8_MonotoneInBudget ==
    \A k1, k2 \in 1..Len(calls) :
        calls[k1].max_pixels <= calls[k2].max_pixels
            => calls[k2].level <= calls[k1].level

C8_Witness ==
    /\ Len(calls) = 2
    /\ calls[1].max_pixels < calls[2].max_pixels
    /\ calls[2].level < calls[1].level

\* C9: when generate_thumbnail fails and nothing else does, the returned
\* record has success=true, every level, the allow-listed properties,
\* thumbnail_generated=false and no thumbnail; in every successful record
\* thumbnail_generated is true exactly when the record holds a thumbnail.
C9_ThumbnailFailureNonFatal ==
    /\ (Returned /\ thumbnail = None /\ raised = "none") =>
          /\ result.success = TRUE
          /\ Len(result.levels) = Len(level_dimensions)
          /\ \A i \in 1..Len(level_dimensions) :
                /\ result.levels[i].width = level_dimensions[i][1]
                /\ result.levels[i].height = level_dimensions[i][2]
          /\ DOMAIN result.properties = InterestingProperties \cap DOMAIN properties
          /\ \A prop \in DOMAIN result.properties :
                result.properties[prop] = properties[prop]
          /\ result.thumbnail_generated = FALSE
          /\ "thumbnail" \notin DOMAIN result
    /\ (Returned /\ result.success) =>
          (result.thumbnail_generated = TRUE <=> "thumbnail" \in DOMAIN result)

C9_Witness ==
    /\ Returned
    /\ thumbnail = None
    /\ result.success = TRUE
    /\ result.thumbnail_generated = FALSE
    /\ Len(result.levels) = 2
    /\ DOMAIN result.properties = {"openslide.vendor"}

\* C10: a returned preview has no side above max_size and no side above the
\* source; a source that fits is returned unchanged; otherwise each side is the
\* source side times max_size / max(w, h), truncated (the double product of a
\* whole-numbered exact result may truncate one below it).
C10_ThumbnailSize ==
    (pc = "generated" /\ thumbnail # None) =>
        LET w == level_dimensions[1][1]
            h == level_dimensions[1][2]
            longest == IF w >= h THEN w ELSE h
            a == thumbnail.size[1]
            b == thumbnail.size[2]
        IN  /\ a <= max_size /\ b <= max_size
            /\ a <= w /\ b <= h
            /\ IF w <= max_size /\ h <= max_size
               THEN a = w /\ b = h
               ELSE /\ a * longest <= w * max_size
                    /\ w * max_size <= (a + 1) * longest
                    /\ (w * max_size) % longest # 0 => w * max_size < (a + 1) * longest
                    /\ b * longest <= h * max_size
                    /\ h * max_size <= (b + 1) * longest
                    /\ (h * max_size) % longest # 0 => h * max_size < (b + 1) * longest

C10_Witness ==
    /\ pc = "generated"
    /\ level_dimensions = <<<<6, 4>>>>
    /\ max_size = 4
    /\ thumbnail = Image(<<4, 2>>)

====
